---- MODULE Spec2Model ----
(***************************************************************************)
(* Pairs mean-reversion backtester (src/v2/backtest_v2.py).                *)
(*                                                                         *)
(* Backtester.__init__ stores the configuration, prepare_data builds the   *)
(* signal frame and drops every row that holds a NaN, and run folds the    *)
(* surviving rows left to right through the entry / mark-to-market / exit  *)
(* loop body.                                                              *)
(*                                                                         *)
(* Floats are modelled by integers in units chosen so that every division  *)
(* of the code is exact on the modelled inputs (notional_per_leg is a      *)
(* multiple of every price; the cost of a trade is a whole number).  NaN   *)
(* and None are the two values outside the numeric range; comparisons with *)
(* NaN are false, as in IEEE arithmetic.                                   *)
(***************************************************************************)
EXTENDS Integers, Sequences, FiniteSets, TLC

VARIABLES
    pc,          \* "init" (constructed), "loop" (inside run's for loop), "done"
    self,        \* the Backtester instance fields (configuration)
    frame,       \* prepare_data's df just before the final dropna (line 90)
    df,          \* prepare_data's result (line 92), the rows run iterates
    run,         \* the locals of Backtester.run
    bar,         \* what the last executed loop body read and decided
    twin,        \* a second Backtester run over the same rows (on = FALSE: none)
    reg,         \* two price inputs and their rolling hedge regressions (lines 47-80)
    tally,       \* how many entries and exits run's loop has made so far
    perf,        \* a results frame and the metrics computed from it (lines 188-202)
    live,        \* the live state dictionary, its parameters and the last target
    client,      \* one get_bars_multi call: symbols, attempts, data_dict
    executor     \* the broker's positions and open orders, and the last event

vars == <<pc, self, frame, df, run, bar, twin, reg, tally, perf, live, client,
          executor>>

----------------------------------------------------------------------------
(* Bounds of the model *)

\* number of aligned bars handed to the constructor
MaxRows == 5
\* largest hedge_window / spread_window
MaxWindow == 2

----------------------------------------------------------------------------
(* Values *)

\* np.nan
NaN == 0 - 999
\* Python's None
None == 0 - 1

Abs(v) == IF v < 0 THEN 0 - v ELSE v

Max(a, b) == IF a >= b THEN a ELSE b

\* float comparisons: every comparison with NaN is False
FLt(a, b) == a # NaN /\ b # NaN /\ a < b

FGt(a, b) == a # NaN /\ b # NaN /\ a > b

FGe(a, b) == a # NaN /\ b # NaN /\ a >= b

\* abs() of a float: abs(nan) is nan
FAbs(v) == IF v = NaN THEN NaN ELSE Abs(v)

----------------------------------------------------------------------------
(* Inputs *)

\* the values row["z"] takes on a surviving row
ZValues == {0 - 2, 0, 1, 2, 3}

\* the values row["beta"] takes
BetaValues == {0 - 2, 0}

\* the values of the close prices
PriceValues == {1, 2}

\* the signal values of one surviving row, as the loop body reads them
RowValues(zs) == [z : zs, beta : BetaValues, price_a : PriceValues, price_b : PriceValues]

\* the constructor's arguments
ZEntryValues == {1}

ZExitValues == {1, 3}

StopZValues == {None, 3}

MaxHoldValues == {None, 2}

CostBpsValues == {0, 2500}

Configs ==
    [z_entry : ZEntryValues, z_exit : ZExitValues,
     spread_window : 1..MaxWindow, hedge_window : 1..MaxWindow,
     initial_capital : {100}, notional_per_leg : {12},
     beta_neutral : BOOLEAN, cost_bps : CostBpsValues,
     use_log_price_spread : BOOLEAN,
     max_hold_bars : MaxHoldValues, stop_z : StopZValues,
     n_aligned : {MaxRows}]

----------------------------------------------------------------------------
(* prepare_data *)

\* the aligned positions that survive the first dropna (line 62): in return
\* mode the shift(1) leaves the first row without x and y
AfterFirstDropna(s) ==
    IF s.use_log_price_spread
    THEN [k \in 1..s.n_aligned |-> k - 1]
    ELSE [k \in 1..(s.n_aligned - 1) |-> k]

\* beta and alpha of row i (0-based) are NaN while i < hedge_window
BetaIsNaN(s, i) == i < s.hedge_window

\* spread = y - (alpha + beta*x) is NaN exactly where beta is
SpreadIsNaN(s, i) == BetaIsNaN(s, i)

\* faulty variant: the rolling window only needs to be complete, NaNs in it are skipped
RollingIsNaN_SkipNaN(s, i) == i - s.spread_window + 1 < 0

\* rolling(spread_window) yields NaN unless the window [i-w+1, i] is complete
\* and holds no NaN
RollingIsNaN(s, i) ==
    \/ i - s.spread_window + 1 < 0
    \/ \E j \in (i - s.spread_window + 1)..i : SpreadIsNaN(s, j)

\* z = (spread - spread_mean) / spread_std: NaN where the rolling statistics
\* are, and 0/0 = NaN where the window's standard deviation is zero; a window
\* of one value always has standard deviation zero
ZIsNaN(s, i, std_zero) ==
    \/ SpreadIsNaN(s, i)
    \/ RollingIsNaN(s, i)
    \/ std_zero[i]
    \/ s.spread_window = 1

\* the frame at line 90: one row per position kept by the first dropna
BuildFrame(s, std_zero) ==
    LET idx == AfterFirstDropna(s)
    IN  [k \in 1..Len(idx) |->
            [t |-> idx[k],
             beta_nan |-> BetaIsNaN(s, k - 1),
             stat_nan |-> RollingIsNaN(s, k - 1),
             z_nan |-> ZIsNaN(s, k - 1, std_zero)]]

\* faulty variant: the final dropna looks at beta and the rolling statistics only
NotNa_IgnoreZ(r) == ~r.beta_nan /\ ~r.stat_nan

\* df.dropna() keeps the rows without any NaN
NotNa(r) == ~r.beta_nan /\ ~r.stat_nan /\ ~r.z_nan

DropNa(f) == SelectSeq(f, NotNa)

----------------------------------------------------------------------------
(* run *)

\* faulty variant: the cost is charged on the magnitude of cost_bps
TradeCost_Abs(s) == (2 * s.notional_per_leg * Abs(s.cost_bps)) \div 10000

\* faulty variant: the cost_bps <= 0 guard is missing
TradeCost_NoGuard(s) ==
    IF s.cost_bps < 0 THEN 0 - ((2 * s.notional_per_leg * (0 - s.cost_bps)) \div 10000)
    ELSE (2 * s.notional_per_leg * s.cost_bps) \div 10000

\* _trade_cost
TradeCost(s) ==
    IF s.cost_bps <= 0 THEN 0
    ELSE (2 * s.notional_per_leg * s.cost_bps) \div 10000

\* df.index.get_loc(t)
GetLoc(d, t) == CHOOSE n \in 1..Len(d) : d[n].t = t

\* the locals of run before the loop (lines 103-114)
RunStart(s) ==
    [capital |-> s.initial_capital, position |-> 0, entry_idx |-> None,
     sh_a |-> 0, sh_b |-> 0, equity_series |-> <<>>, trade_count |-> 0]

\* line 123
StopOut(s, z) == s.stop_z # None /\ FGe(FAbs(z), s.stop_z)

\* faulty variant: the holding limit is compared with > instead of >=
HeldTooLong_Strict(s, r, d, t) ==
    IF r.position # 0 /\ s.max_hold_bars # None /\ r.entry_idx # None
    THEN GetLoc(d, t) - GetLoc(d, r.entry_idx) > s.max_hold_bars
    ELSE FALSE

\* lines 126-130, evaluated with the position held before the entry block
HeldTooLong(s, r, d, t) ==
    IF r.position # 0 /\ s.max_hold_bars # None /\ r.entry_idx # None
    THEN GetLoc(d, t) - GetLoc(d, r.entry_idx) >= s.max_hold_bars
    ELSE FALSE

\* faulty variant: the two directions are swapped
EntrySignal_Swapped(s, z) ==
    IF FGt(z, s.z_entry) THEN 1
    ELSE IF FLt(z, 0 - s.z_entry) THEN 0 - 1
    ELSE 0

\* faulty variant: the entry thresholds are inclusive
EntrySignal_Inclusive(s, z) ==
    IF FGe(z, s.z_entry) THEN 0 - 1
    ELSE IF FGe(0 - s.z_entry, z) THEN 1
    ELSE 0

\* lines 134-137: the direction of the entry, 0 when none
EntrySignal(s, z) ==
    IF FGt(z, s.z_entry) THEN 0 - 1
    ELSE IF FLt(z, 0 - s.z_entry) THEN 1
    ELSE 0

\* line 145
Scale(s, beta) == IF s.beta_neutral THEN Abs(beta) ELSE 1

\* faulty variant: leg B is sized without the beta scale
Entry_Unscaled(s, r, row, t) ==
    IF r.position = 0
    THEN LET position == EntrySignal(s, row.z)
         IN  IF position # 0
             THEN [r EXCEPT
                     !.position = position,
                     !.sh_a = (s.notional_per_leg \div row.price_a) * position,
                     !.sh_b = 0 - (s.notional_per_leg \div row.price_b) * position,
                     !.capital = r.capital - TradeCost(s),
                     !.trade_count = r.trade_count + 1,
                     !.entry_idx = t]
             ELSE r
    ELSE r

\* faulty variant: trade_count is incremented on every bar entered FLAT
Entry_CountAlways(s, r, row, t) ==
    IF r.position = 0
    THEN LET position == EntrySignal(s, row.z)
             scale == Scale(s, row.beta)
         IN  IF position # 0
             THEN [r EXCEPT
                     !.position = position,
                     !.sh_a = (s.notional_per_leg \div row.price_a) * position,
                     !.sh_b = 0 - ((s.notional_per_leg * scale) \div row.price_b) * position,
                     !.capital = r.capital - TradeCost(s),
                     !.trade_count = r.trade_count + 1,
                     !.entry_idx = t]
             ELSE [r EXCEPT !.trade_count = r.trade_count + 1]
    ELSE r

\* lines 133-151: the ENTRY block
Entry(s, r, row, t) ==
    IF r.position = 0
    THEN LET position == EntrySignal(s, row.z)
             scale == Scale(s, row.beta)
         IN  IF position # 0
             THEN [r EXCEPT
                     !.position = position,
                     !.sh_a = (s.notional_per_leg \div row.price_a) * position,
                     !.sh_b = 0 - ((s.notional_per_leg * scale) \div row.price_b) * position,
                     !.capital = r.capital - TradeCost(s),
                     !.trade_count = r.trade_count + 1,
                     !.entry_idx = t]
             ELSE r
    ELSE r

\* faulty variant: the reversion exit is inclusive
ExitTrigger_Inclusive(s, z, held_too_long) ==
    FGe(s.z_exit, FAbs(z)) \/ StopOut(s, z) \/ held_too_long

\* the exit triggers of lines 155 and 172
ExitTrigger(s, z, held_too_long) ==
    FLt(FAbs(z), s.z_exit) \/ StopOut(s, z) \/ held_too_long

\* line 172: the guard of the realize block, on the position after ENTRY
ExitGuard(s, m, z, held_too_long) ==
    m.position # 0 /\ ExitTrigger(s, z, held_too_long)

\* line 163
Mtm(m, row) == m.sh_a * row.price_a + m.sh_b * row.price_b

\* faulty variant: the exit cost is deducted before the bar's equity is recorded
LoopBody_CostFirst(s, r, d, row, t) ==
    LET held_too_long == HeldTooLong(s, r, d, t)
        m == Entry(s, r, row, t)
        exit == ExitGuard(s, m, row.z, held_too_long)
        equity == m.capital + Mtm(m, row) - (IF exit THEN TradeCost(s) ELSE 0)
        rec == [m EXCEPT !.equity_series = Append(m.equity_series, equity)]
    IN  IF exit
        THEN [rec EXCEPT
                !.capital = equity,
                !.position = 0, !.sh_a = 0, !.sh_b = 0, !.entry_idx = None]
        ELSE rec

\* faulty variant: the flattening forgets to clear entry_idx
LoopBody_KeepEntryIdx(s, r, d, row, t) ==
    LET held_too_long == HeldTooLong(s, r, d, t)
        m == Entry(s, r, row, t)
        equity == m.capital + Mtm(m, row)
        rec == [m EXCEPT !.equity_series = Append(m.equity_series, equity)]
    IN  IF ExitGuard(s, m, row.z, held_too_long)
        THEN [rec EXCEPT
                !.capital = equity - TradeCost(s),
                !.position = 0, !.sh_a = 0, !.sh_b = 0]
        ELSE rec

\* faulty variant: an exit bar records its equity again after the exit cost
LoopBody_RecordTwice(s, r, d, row, t) ==
    LET held_too_long == HeldTooLong(s, r, d, t)
        m == Entry(s, r, row, t)
        equity == m.capital + Mtm(m, row)
        rec == [m EXCEPT !.equity_series = Append(m.equity_series, equity)]
    IN  IF ExitGuard(s, m, row.z, held_too_long)
        THEN [rec EXCEPT
                !.capital = equity - TradeCost(s),
                !.equity_series = Append(rec.equity_series, equity - TradeCost(s)),
                !.position = 0, !.sh_a = 0, !.sh_b = 0, !.entry_idx = None]
        ELSE rec

\* lines 117-180: one pass of the loop body over row `row` with index t
LoopBody(s, r, d, row, t) ==
    LET held_too_long == HeldTooLong(s, r, d, t)
        m == Entry(s, r, row, t)
        equity == m.capital + Mtm(m, row)
        rec == [m EXCEPT !.equity_series = Append(m.equity_series, equity)]
    IN  IF ExitGuard(s, m, row.z, held_too_long)
        THEN [rec EXCEPT
                !.capital = equity - TradeCost(s),
                !.position = 0, !.sh_a = 0, !.sh_b = 0, !.entry_idx = None]
        ELSE rec

\* what the loop body last worked on, kept for the properties: the index, z
\* and prices it read, run's locals before the bar (pre) and after the ENTRY
\* block of lines 133-151 (held: the legs that line 163 marks to market), and
\* the local scale of line 145, which is assigned on an entry only
BarRecord(s, r, d, row, t) ==
    LET m == Entry(s, r, row, t)
    IN  [t |-> t, z |-> row.z, price_a |-> row.price_a, price_b |-> row.price_b,
         pre |-> r, held |-> m,
         scale |-> IF m.trade_count # r.trade_count THEN Scale(s, row.beta) ELSE None]

NoBar == [t |-> None]

NoTwin == [on |-> FALSE]

NoReg == [on |-> FALSE]

NoTally == [entries |-> 0, exits |-> 0]

NoPerf == [on |-> FALSE]

NoLive == [on |-> FALSE]

NoClient == [on |-> FALSE]

NoExecutor == [on |-> FALSE]

\* one bar's entries and exits: an entry is the ENTRY block of lines 139-151
\* opening a position (r before it, m after it), an exit the realize block of
\* lines 172-180 flattening one (m before it, n after it)
Count(c, r, m, n) ==
    [entries |-> c.entries + (IF r.position = 0 /\ m.position # 0 THEN 1 ELSE 0),
     exits |-> c.exits + (IF m.position # 0 /\ n.position = 0 THEN 1 ELSE 0)]

\* the second run's loop body over the same row
TwinBody(w, d, row, t) ==
    IF w.on THEN [w EXCEPT !.run = LoopBody(w.self, w.run, d, row, t)] ELSE w

----------------------------------------------------------------------------
(* The state machine *)

Init ==
    /\ pc = "init"
    /\ self \in Configs
    /\ frame = <<>>
    /\ df = <<>>
    /\ run = RunStart(self)
    /\ bar = NoBar
    /\ twin = NoTwin
    /\ reg = NoReg
    /\ tally = NoTally
    /\ executor = NoExecutor
    /\ perf = NoPerf /\ live = NoLive /\ client = NoClient

\* run, lines 101-114: prepare_data, then the locals
PrepareData ==
    /\ pc = "init"
    /\ \E std_zero \in [0..(MaxRows - 1) -> BOOLEAN] :
         /\ frame' = BuildFrame(self, std_zero)
         /\ df' = DropNa(frame')
    /\ run' = RunStart(self)
    /\ pc' = "loop"
    /\ UNCHANGED <<self, bar, twin, reg, tally, perf, live, client,
                   executor>>

\* the values of the row the loop visits next
NextRowValues ==
    LET r == df[Len(run.equity_series) + 1]
    IN  RowValues(IF r.z_nan THEN {NaN} ELSE ZValues)

\* run, lines 116-180: one iteration of the for loop
Bar ==
    /\ pc = "loop"
    /\ Len(run.equity_series) < Len(df)
    /\ LET t == df[Len(run.equity_series) + 1].t
       IN  \E row \in NextRowValues :
             /\ run' = LoopBody(self, run, df, row, t)
             /\ bar' = BarRecord(self, run, df, row, t)
             /\ twin' = TwinBody(twin, df, row, t)
             /\ tally' = Count(tally, run, Entry(self, run, row, t),
                               LoopBody(self, run, df, row, t))
    /\ UNCHANGED <<pc, self, frame, df, reg, perf, live, client,
                   executor>>

\* run, lines 182-186: the loop is over, the results are returned
Finish ==
    /\ pc = "loop"
    /\ Len(run.equity_series) = Len(df)
    /\ pc' = "done"
    /\ UNCHANGED <<self, frame, df, run, bar, twin, reg, tally, perf, live, client,
                   executor>>

Next == PrepareData \/ Bar \/ Finish

Spec == Init /\ [][Next]_vars

\* two Backtesters that differ in cost_bps only, run over the same rows
CostPairValues == {0 - 2500, 0, 2500}

CostConfigs ==
    {c \in Configs : c.hedge_window = 1 /\ c.spread_window = MaxWindow
                      /\ c.use_log_price_spread
                      /\ c.z_exit = 1 /\ c.beta_neutral /\ c.cost_bps = 0}

InitCost ==
    /\ pc = "init"
    /\ \E c \in CostConfigs : \E c1 \in CostPairValues : \E c2 \in CostPairValues :
         /\ c1 <= c2
         /\ self = [c EXCEPT !.cost_bps = c1]
         /\ twin = [on |-> TRUE, self |-> [c EXCEPT !.cost_bps = c2],
                    run |-> RunStart([c EXCEPT !.cost_bps = c2])]
    /\ frame = <<>>
    /\ df = <<>>
    /\ run = RunStart(self)
    /\ bar = NoBar
    /\ reg = NoReg
    /\ tally = NoTally
    /\ executor = NoExecutor
    /\ perf = NoPerf /\ live = NoLive /\ client = NoClient

SpecCost == InitCost /\ [][Next]_vars

\* one run of the backtester whose steps are always eventually taken:
\* prepare_data and the for loop of run are straight-line sequential code
\* with no blocking call, so an enabled step is taken
InitTerm == Init /\ self \in CostConfigs

SpecTerm == InitTerm /\ [][Next]_vars /\ WF_vars(Next)

----------------------------------------------------------------------------
(* prepare_data: the rolling hedge regression *)

\* the log close prices of the bars (prices are their exponentials)
LogPriceValues == {0, 1}

\* one aligned bar: the log closes of A and B
BarValues == [a : LogPriceValues, b : LogPriceValues]

\* number of aligned bars of the regression inputs
FitRows == MaxWindow + 2

\* lines 53-62: x and y of the rows that survive the first dropna; t is the
\* aligned position.  Log-price mode: y = log(price_a), x = log(price_b);
\* return mode: the log returns, whose first row is NaN and dropped
XY(bars, log_mode) ==
    IF log_mode
    THEN [k \in 1..Len(bars) |-> [t |-> k - 1, x |-> bars[k].b, y |-> bars[k].a]]
    ELSE [k \in 1..(Len(bars) - 1) |->
            [t |-> k, x |-> bars[k + 1].b - bars[k].b, y |-> bars[k + 1].a - bars[k].a]]

RECURSIVE SumSeq(_)
\* the sum of the numbers of a sequence
SumSeq(q) == IF q = <<>> THEN 0 ELSE q[1] + SumSeq(Tail(q))

\* np.polyfit(x, y, 1) over the rows lo..hi: the least-squares slope and
\* intercept as exact fractions <<numerator, denominator>>; on a window with
\* constant x the minimum-norm solution of the column-scaled system
\* (beta = mean(y)/(2x), alpha = mean(y)/2), undefined when that x is 0
Polyfit(xy, lo, hi) ==
    LET n == hi - lo + 1
        x == [k \in 1..n |-> xy[lo + k - 1].x]
        y == [k \in 1..n |-> xy[lo + k - 1].y]
        Sx == SumSeq(x)
        Sy == SumSeq(y)
        Sxx == SumSeq([k \in 1..n |-> x[k] * x[k]])
        Sxy == SumSeq([k \in 1..n |-> x[k] * y[k]])
        den == n * Sxx - Sx * Sx
    IN  IF den # 0
        THEN [beta |-> <<n * Sxy - Sx * Sy, den>>, alpha |-> <<Sy * Sxx - Sx * Sxy, den>>]
        ELSE IF Sx # 0
        THEN [beta |-> <<Sy, 2 * Sx>>, alpha |-> <<Sy, 2 * n>>]
        ELSE [beta |-> <<NaN, 1>>, alpha |-> <<NaN, 1>>]

\* faulty variant: the window ends at the current row, iloc[i-w+1 : i+1]
HedgeFit_Lookahead(xy, w, i) ==
    IF i < w THEN [beta |-> <<NaN, 1>>, alpha |-> <<NaN, 1>>]
    ELSE Polyfit(xy, i - w + 2, i + 1)

\* lines 67-77: beta and alpha of row i (0-based), from iloc[i-w : i]
HedgeFit(xy, w, i) ==
    IF i < w THEN [beta |-> <<NaN, 1>>, alpha |-> <<NaN, 1>>]
    ELSE Polyfit(xy, i - w + 1, i)

\* lines 47-80: the beta / alpha columns, one entry per surviving row
HedgeColumns(bars, s) ==
    LET xy == XY(bars, s.use_log_price_spread)
    IN  [k \in 1..Len(xy) |->
            [t |-> xy[k].t,
             beta |-> HedgeFit(xy, s.hedge_window, k - 1).beta,
             alpha |-> HedgeFit(xy, s.hedge_window, k - 1).alpha]]

\* the configurations of the regression: only the windows and the mode matter
FitConfigs ==
    {c \in Configs : c.z_exit = 1 /\ c.stop_z = None /\ c.max_hold_bars = None
                      /\ c.cost_bps = 0 /\ c.beta_neutral /\ c.spread_window = MaxWindow}

\* two backtesters are constructed over inputs that agree on the bars before
\* position split
InitFit ==
    /\ pc = "fit"
    /\ self \in FitConfigs
    /\ frame = <<>>
    /\ df = <<>>
    /\ run = RunStart(self)
    /\ bar = NoBar
    /\ twin = NoTwin
    /\ tally = NoTally
    /\ executor = NoExecutor
    /\ perf = NoPerf /\ live = NoLive /\ client = NoClient
    /\ \E split \in (FitRows - 2)..(FitRows - 1) :
         reg = [on |-> TRUE, pc |-> "input", split |-> split,
                bars_a |-> <<>>, bars_b |-> <<>>, cols_a |-> <<>>, cols_b |-> <<>>]

\* the caller supplies the next aligned bar of both inputs: the same bar
\* before position split, any two bars from there on
AddBars ==
    /\ reg.on /\ reg.pc = "input"
    /\ Len(reg.bars_a) < FitRows
    /\ \E u \in BarValues : \E v \in BarValues :
         /\ Len(reg.bars_a) < reg.split => u = v
         /\ reg' = [reg EXCEPT !.bars_a = Append(@, u), !.bars_b = Append(@, v)]
    /\ UNCHANGED <<pc, self, frame, df, run, bar, twin, tally, perf, live, client,
                   executor>>

\* prepare_data, lines 47-80, on both inputs
FitHedge ==
    /\ reg.on /\ reg.pc = "input"
    /\ Len(reg.bars_a) = FitRows
    /\ reg' = [reg EXCEPT !.pc = "fitted",
                          !.cols_a = HedgeColumns(reg.bars_a, self),
                          !.cols_b = HedgeColumns(reg.bars_b, self)]
    /\ UNCHANGED <<pc, self, frame, df, run, bar, twin, tally, perf, live, client,
                   executor>>

NextFit == AddBars \/ FitHedge

SpecFit == InitFit /\ [][NextFit]_vars

----------------------------------------------------------------------------
(* Properties *)

\* ---------------------------------------------------------------------
\* performance_metrics (lines 188-202)
\* ---------------------------------------------------------------------

MaxPoints == 4

\* equity values a run can record: cash plus the value of the legs, of any sign
EquityValues == {0 - 2, 0, 1, 2, 4}

\* a float quotient num/den kept exact as <<num, den>> with den >= 0:
\* <<0, 0>> is NaN, <<-1, 0>> is -inf and <<1, 0>> is +inf
Frac(num, den) ==
    IF den = 0 THEN (IF num = 0 THEN <<0, 0>> ELSE IF num < 0 THEN <<0 - 1, 0>> ELSE <<1, 0>>)
    ELSE IF den < 0 THEN <<0 - num, 0 - den>>
    ELSE <<num, den>>

FracIsNaN(p) == p = <<0, 0>>

FracLe(p, q) == p[1] * q[2] <= q[1] * p[2]

\* Series.dropna on a column of numbers / of quotients
DropNaSeq(e) == SelectSeq(e, LAMBDA v : v # NaN)

DropNaFrac(q) == SelectSeq(q, LAMBDA v : ~FracIsNaN(v))

\* line 183: Series.pct_change, first entry NaN
PctChange(e) ==
    [k \in 1..Len(e) |-> IF k = 1 THEN <<0, 0>> ELSE Frac(e[k] - e[k - 1], e[k - 1])]

\* lines 182-183: the results frame run returns for an equity series
Results(e) == [equity |-> e, returns |-> PctChange(e)]

\* line 198: Series.cummax
CumMax(e) ==
    [k \in 1..Len(e) |-> CHOOSE m \in {e[j] : j \in 1..k} : \A j \in 1..k : e[j] <= m]

\* faulty variant: the drawdown is taken relative to the equity itself
Drawdown_OverEquity(e) ==
    [k \in 1..Len(e) |-> Frac(e[k] - CumMax(e)[k], e[k])]

\* line 199: (equity - rolling_max) / rolling_max
Drawdown(e) ==
    [k \in 1..Len(e) |-> Frac(e[k] - CumMax(e)[k], CumMax(e)[k])]

\* line 200: Series.min skips NaN and is NaN when nothing is left
MinSkipNa(q) ==
    LET T == {DropNaFrac(q)[k] : k \in 1..Len(DropNaFrac(q))}
    IN  IF T = {} THEN <<0, 0>>
        ELSE CHOOSE m \in T : \A v \in T : FracLe(m, v)

\* lines 192-195: the Sharpe ratio is NaN when fewer than 2 returns are left
\* or their standard deviation is 0 (all equal), and also when a return is
\* infinite (the deviation is then NaN); otherwise it is a number
SharpeIsNaN(rets) ==
    \/ Len(rets) < 2
    \/ \A i \in 1..Len(rets) : \A j \in 1..Len(rets) :
          rets[i][2] # 0 /\ rets[j][2] # 0 /\ rets[i][1] * rets[j][2] = rets[j][1] * rets[i][2]
    \/ \E i \in 1..Len(rets) : rets[i][2] = 0

\* lines 188-202
PerformanceMetrics(results) ==
    LET equity == DropNaSeq(results.equity)
        rets == DropNaFrac(results.returns)
    IN  [Sharpe_nan |-> SharpeIsNaN(rets),
         Max_Drawdown |-> MinSkipNa(Drawdown(equity))]

\* a results frame as run returns it (lines 182-186), kept by the caller
InitPerf ==
    /\ pc = "idle" /\ self = None /\ frame = <<>> /\ df = <<>>
    /\ run = None /\ bar = NoBar /\ twin = NoTwin /\ reg = NoReg
    /\ tally = NoTally /\ live = NoLive /\ client = NoClient
    /\ executor = NoExecutor
    /\ \E n \in 0..MaxPoints : \E e \in [1..n -> EquityValues] :
         perf = [on |-> TRUE, pc |-> "input", given |-> Results(e),
                 results |-> Results(e), out |-> None]

\* the caller computes the metrics of the frame; dropna, cummax and the
\* arithmetic of lines 190-200 all return new objects
Metrics ==
    /\ perf.on /\ perf.pc = "input"
    /\ perf' = [perf EXCEPT !.pc = "done", !.out = PerformanceMetrics(perf.results)]
    /\ UNCHANGED <<pc, self, frame, df, run, bar, twin, reg, tally, live, client,
                   executor>>

NextPerf == Metrics

SpecPerf == InitPerf /\ [][NextPerf]_vars

\* ---------------------------------------------------------------------
\* exec_layer_v2.py: the live decision logic
\* ---------------------------------------------------------------------

MaxClock == 4
MaxFeatureRows == 2

\* state["side"] and state["entry_time"] when not set
NoSide == "None"

\* StrategyParams (lines 15-21), thresholds and minutes as small integers
StrategyParamValues ==
    [z_entry : {2}, z_exit : {1}, max_hold_min : {1, 2}, base_size : {50}]

LiveZValues == {NaN, 0 - 3, 0, 1, 3}

\* the features frame of a call: its z_spread column, possibly empty
FeatureValues ==
    UNION {[1..n -> [z_spread : LiveZValues]] : n \in 0..MaxFeatureRows}

\* lines 33-39
init_state ==
    [in_trade |-> FALSE, side |-> NoSide, entry_time |-> None, entry_beta |-> None]

\* faulty variant: the exit branch forgets to clear side
decide_portfolio_target_KeepSide(features, state, p, now_ts) ==
    IF features = <<>> THEN [state |-> state, target |-> {}]
    ELSE LET z == features[Len(features)].z_spread
         IN  IF z = NaN THEN [state |-> state, target |-> {}]
             ELSE IF ~state.in_trade
             THEN IF z > p.z_entry
                  THEN [state |-> [state EXCEPT !.in_trade = TRUE,
                                                !.side = "SHORT_A_LONG_B",
                                                !.entry_time = now_ts],
                        target |-> {<<"A", 0 - p.base_size>>, <<"B", p.base_size>>}]
                  ELSE IF z < 0 - p.z_entry
                  THEN [state |-> [state EXCEPT !.in_trade = TRUE,
                                                !.side = "LONG_A_SHORT_B",
                                                !.entry_time = now_ts],
                        target |-> {<<"A", p.base_size>>, <<"B", 0 - p.base_size>>}]
                  ELSE [state |-> state, target |-> {}]
             ELSE LET hold_minutes == now_ts - state.entry_time
                  IN  IF Abs(z) < p.z_exit \/ hold_minutes > p.max_hold_min
                      THEN [state |-> [state EXCEPT !.in_trade = FALSE,
                                                    !.entry_time = None],
                            target |-> {<<"A", 0>>, <<"B", 0>>}]
                      ELSE [state |-> state, target |-> {}]

\* lines 46-102: the state after the call and the returned target, a dict
\* kept as its set of (symbol, quantity) items
decide_portfolio_target(features, state, p, now_ts) ==
    IF features = <<>> THEN [state |-> state, target |-> {}]
    ELSE LET z == features[Len(features)].z_spread
         IN  IF z = NaN THEN [state |-> state, target |-> {}]
             ELSE IF ~state.in_trade
             THEN IF z > p.z_entry
                  THEN [state |-> [state EXCEPT !.in_trade = TRUE,
                                                !.side = "SHORT_A_LONG_B",
                                                !.entry_time = now_ts],
                        target |-> {<<"A", 0 - p.base_size>>, <<"B", p.base_size>>}]
                  ELSE IF z < 0 - p.z_entry
                  THEN [state |-> [state EXCEPT !.in_trade = TRUE,
                                                !.side = "LONG_A_SHORT_B",
                                                !.entry_time = now_ts],
                        target |-> {<<"A", p.base_size>>, <<"B", 0 - p.base_size>>}]
                  ELSE [state |-> state, target |-> {}]
             ELSE LET hold_minutes == now_ts - state.entry_time
                  IN  IF Abs(z) < p.z_exit \/ hold_minutes > p.max_hold_min
                      THEN [state |-> [state EXCEPT !.in_trade = FALSE,
                                                    !.side = NoSide,
                                                    !.entry_time = None],
                            target |-> {<<"A", 0>>, <<"B", 0>>}]
                      ELSE [state |-> state, target |-> {}]

\* the live loop has created its state and parameters; no call made yet
InitLive ==
    /\ pc = "idle" /\ self = None /\ frame = <<>> /\ df = <<>>
    /\ run = None /\ bar = NoBar /\ twin = NoTwin /\ reg = NoReg
    /\ tally = NoTally /\ perf = NoPerf /\ client = NoClient
    /\ executor = NoExecutor
    /\ \E p \in StrategyParamValues :
         live = [on |-> TRUE, p |-> p, state |-> init_state, called |-> FALSE,
                 now_ts |-> 0, features |-> <<>>, pre |-> init_state, target |-> {}]

\* one call of decide_portfolio_target, at the caller's clock, which does
\* not run backwards
Decide ==
    /\ live.on
    /\ \E features \in FeatureValues : \E now_ts \in live.now_ts..MaxClock :
         LET r == decide_portfolio_target(features, live.state, live.p, now_ts)
         IN  live' = [live EXCEPT !.state = r.state, !.target = r.target,
                                  !.called = TRUE,
                                  !.now_ts = now_ts, !.features = features,
                                  !.pre = live.state]
    /\ UNCHANGED <<pc, self, frame, df, run, bar, twin, reg, tally, perf, client,
                   executor>>

NextLive == Decide

SpecLive == InitLive /\ [][NextLive]_vars

\* ---------------------------------------------------------------------
\* data_layer_v2.py: get_bars_multi (lines 25-76)
\* ---------------------------------------------------------------------

MaxRetriesValues == {0, 1, 2}

\* the keys of the contracts dict, in iteration order
ContractValues == {<<"A">>, <<"A", "B">>, <<"A", "B", "C">>}

\* what one reqHistoricalData request can do: raise, return bars, or return
\* an empty list of bars; an attempt succeeds when its try block reaches the
\* break of line 65
RequestOutcomes == {"raise", "bars", "no_bars"}

\* util.df of ib_insync: a frame for a non-empty list of objects, None for
\* an empty one (the case line 57 tests for)
UtilDf(n) == IF n > 0 THEN [kind |-> "frame", rows |-> n] ELSE [kind |-> "None"]

\* data_dict[symbol] = value
Put(d, symbol, value) ==
    [x \in DOMAIN d \cup {symbol} |-> IF x = symbol THEN value ELSE d[x]]

\* lines 46-66: the body of the try block for one request outcome; len(df)
\* raises TypeError when df is None, and an exception raised anywhere in the
\* block is caught at line 67
TryBlock(c, symbol, outcome) ==
    IF outcome = "raise" THEN [raised |-> TRUE, c |-> c]
    ELSE LET bars == IF outcome = "bars" THEN 1 ELSE 0
             first == UtilDf(bars)
             bars_df == IF first.kind = "None" THEN UtilDf(0) ELSE first
         IN  IF bars_df.kind = "None" THEN [raised |-> TRUE, c |-> c]
             ELSE [raised |-> FALSE,
                   c |-> [c EXCEPT !.data_dict = Put(@, symbol,
                                       [kind |-> "frame", rows |-> bars_df.rows,
                                        symbol |-> symbol]),
                                   !.last_err = FALSE]]

\* get_bars_multi has been called: data_dict = {} and the outer loop is at
\* the first symbol (lines 40-43)
InitFetch ==
    /\ pc = "idle" /\ self = None /\ frame = <<>> /\ df = <<>>
    /\ run = None /\ bar = NoBar /\ twin = NoTwin /\ reg = NoReg
    /\ tally = NoTally /\ perf = NoPerf /\ live = NoLive
    /\ executor = NoExecutor
    /\ \E symbols \in ContractValues : \E max_retries \in MaxRetriesValues :
         client = [on |-> TRUE, pc |-> "attempt", symbols |-> symbols,
                   max_retries |-> max_retries, i |-> 1, attempt |-> 0,
                   last_err |-> FALSE, data_dict |-> <<>>,
                   tries |-> [k \in 1..Len(symbols) |-> 0],
                   returned |-> [k \in 1..Len(symbols) |-> FALSE],
                   retried |-> [k \in 1..Len(symbols) |-> FALSE]]

\* lines 45-69: one iteration of the retry loop for the current symbol
Attempt ==
    /\ client.on /\ client.pc = "attempt"
    /\ client.attempt < client.max_retries + 1
    /\ \E outcome \in RequestOutcomes :
         LET r == TryBlock(client, client.symbols[client.i], outcome)
             h == [r.c EXCEPT
                     !.tries[client.i] = @ + 1,
                     !.retried[client.i] = @ \/ client.returned[client.i],
                     !.returned[client.i] = @ \/ ~r.raised]
         IN  client' = IF r.raised
                       THEN [h EXCEPT !.last_err = TRUE, !.attempt = @ + 1]
                       ELSE [h EXCEPT !.pc = "after"]
    /\ UNCHANGED <<pc, self, frame, df, run, bar, twin, reg, tally, perf, live,
                   executor>>

\* the retry loop ran out of attempts
Exhausted ==
    /\ client.on /\ client.pc = "attempt"
    /\ client.attempt >= client.max_retries + 1
    /\ client' = [client EXCEPT !.pc = "after"]
    /\ UNCHANGED <<pc, self, frame, df, run, bar, twin, reg, tally, perf, live,
                   executor>>

\* lines 71-76: the fallback entry, the pause, and the next symbol or the
\* return
AfterSymbol ==
    /\ client.on /\ client.pc = "after"
    /\ LET symbol == client.symbols[client.i]
           d == IF client.last_err THEN Put(client.data_dict, symbol, UtilDf(0))
                ELSE client.data_dict
       IN  client' = IF client.i < Len(client.symbols)
                     THEN [client EXCEPT !.data_dict = d, !.i = @ + 1,
                                         !.attempt = 0, !.last_err = FALSE,
                                         !.pc = "attempt"]
                     ELSE [client EXCEPT !.data_dict = d, !.pc = "return"]
    /\ UNCHANGED <<pc, self, frame, df, run, bar, twin, reg, tally, perf, live,
                   executor>>

NextFetch == Attempt \/ Exhausted \/ AfterSymbol

\* the loops are sequential code: an enabled step is taken (each request
\* and each sleep returns or raises)
SpecFetch == InitFetch /\ [][NextFetch]_vars /\ WF_vars(NextFetch)

\* ---------------------------------------------------------------------
\* exec_layer_v2.py: Executor (lines 109-150)
\* ---------------------------------------------------------------------

MaxCalls == 3

ExecSymbols == {"A", "B"}

\* target positions a caller asks for: the flat target and +/- base_size
TargetValues == {0 - 50, 0, 50}

\* ib.positions(): the account's (symbol, position) entries, at most one per
\* symbol; a symbol never traded has no entry
PositionValues == {{}, {<<"A", 50>>}, {<<"A", 0 - 50>>, <<"B", 50>>}, {<<"A", 0>>}}

\* lines 116-124: the position of the first entry for the symbol, else 0
get_position(positions, symbol) ==
    IF \E p \in positions : p[1] = symbol
    THEN (CHOOSE p \in positions : p[1] = symbol)[2]
    ELSE 0

\* faulty variant: the order is sized by the target, not by the difference
trade_to_target_Absolute(positions, symbol, target_position) ==
    LET current_position == get_position(positions, symbol)
        delta == target_position - current_position
    IN  IF delta = 0 THEN <<>>
        ELSE <<[symbol |-> symbol,
                action |-> IF delta > 0 THEN "BUY" ELSE "SELL",
                quantity |-> Abs(target_position),
                seen |-> current_position, target |-> target_position]>>

\* lines 126-146: the orders the call places, each a MarketOrder(action,
\* quantity) on the symbol's contract; seen and target remember the call
trade_to_target(positions, symbol, target_position) ==
    LET current_position == get_position(positions, symbol)
        delta == target_position - current_position
    IN  IF delta = 0 THEN <<>>
        ELSE <<[symbol |-> symbol,
                action |-> IF delta > 0 THEN "BUY" ELSE "SELL",
                quantity |-> Abs(delta),
                seen |-> current_position, target |-> target_position]>>

\* the account after the broker fully fills a market order
Filled(positions, o) ==
    {p \in positions : p[1] # o.symbol}
        \cup {<<o.symbol, get_position(positions, o.symbol)
                            + (IF o.action = "BUY" THEN o.quantity ELSE 0 - o.quantity)>>}

NoEvent == [kind |-> "none"]

\* an Executor has been constructed over a connected account (lines 111-114)
InitExec ==
    /\ pc = "idle" /\ self = None /\ frame = <<>> /\ df = <<>>
    /\ run = None /\ bar = NoBar /\ twin = NoTwin /\ reg = NoReg
    /\ tally = NoTally /\ perf = NoPerf /\ live = NoLive /\ client = NoClient
    /\ \E positions \in PositionValues :
         executor = [on |-> TRUE, positions |-> positions, orders |-> <<>>,
                     calls |-> 0, event |-> NoEvent]

\* one call of trade_to_target; placeOrder (line 146) hands the order to
\* the broker
TradeToTarget ==
    /\ executor.on /\ executor.calls < MaxCalls
    /\ \E symbol \in ExecSymbols : \E target_position \in TargetValues :
         LET sent == trade_to_target(executor.positions, symbol, target_position)
         IN  executor' = [executor EXCEPT
                 !.orders = @ \o sent,
                 !.calls = @ + 1,
                 !.event = [kind |-> "call", symbol |-> symbol,
                            target |-> target_position,
                            current |-> get_position(executor.positions, symbol),
                            sent |-> sent,
                            repeat |-> /\ executor.event.kind = "fill"
                                       /\ executor.event.order.symbol = symbol
                                       /\ executor.event.order.target = target_position
                                       /\ executor.event.before = executor.event.order.seen]]
    /\ UNCHANGED <<pc, self, frame, df, run, bar, twin, reg, tally, perf, live, client>>

\* the broker fully fills one open order
Fill ==
    /\ executor.on
    /\ \E k \in 1..Len(executor.orders) :
         LET o == executor.orders[k]
         IN  executor' = [executor EXCEPT
                 !.positions = Filled(@, o),
                 !.orders = SubSeq(@, 1, k - 1) \o SubSeq(@, k + 1, Len(@)),
                 !.event = [kind |-> "fill", order |-> o,
                            before |-> get_position(executor.positions, o.symbol),
                            after |-> get_position(Filled(executor.positions, o), o.symbol)]]
    /\ UNCHANGED <<pc, self, frame, df, run, bar, twin, reg, tally, perf, live, client>>

\* the broker rejects or cancels one open order: the account is untouched
Cancel ==
    /\ executor.on
    /\ \E k \in 1..Len(executor.orders) :
         executor' = [executor EXCEPT
             !.orders = SubSeq(@, 1, k - 1) \o SubSeq(@, k + 1, Len(@)),
             !.event = [kind |-> "cancel", order |-> executor.orders[k]]]
    /\ UNCHANGED <<pc, self, frame, df, run, bar, twin, reg, tally, perf, live, client>>

NextExec == TradeToTarget \/ Fill \/ Cancel

SpecExec == InitExec /\ [][NextExec]_vars

Last(q) == q[Len(q)]

\* the loop body has run at least once
BarRan == bar.t # None

\* the cost of one entry or exit event as section 4.2 states it
StatedCost ==
    IF self.cost_bps <= 0 THEN 0
    ELSE (2 * self.notional_per_leg * self.cost_bps) \div 10000

\* the number of signal rows after the row indexed t0, up to and including t1
RowsSince(t0, t1) == Cardinality({n \in 1..Len(df) : df[n].t > t0 /\ df[n].t <= t1})

\* an entry was made on the last bar
Entered == BarRan /\ run.trade_count = bar.pre.trade_count + 1

\* the last bar flattened a position (carried into it or opened on it)
Flattened == BarRan /\ bar.held.position # 0 /\ run.position = 0

\* C1: a position opened on a bar is not exited on that same bar: when the
\* state was FLAT before the bar and an entry fired on it, the state after the
\* bar is LONG_SPREAD or SHORT_SPREAD with shares and entry index set, and only
\* the entry cost has been charged
C1_NoSameBarExit ==
    (Entered /\ bar.pre.position = 0) =>
        /\ run.position \in {1, 0 - 1}
        /\ run.sh_a # 0
        /\ run.entry_idx = bar.t
        /\ run.capital = bar.pre.capital - StatedCost

\* the exit triggers of section 4.2 on the last bar, for a carried position
StatedTrigger ==
    \/ Abs(bar.z) < self.z_exit
    \/ (self.stop_z # None /\ Abs(bar.z) >= self.stop_z)
    \/ (self.max_hold_bars # None
        /\ RowsSince(bar.pre.entry_idx, bar.t) >= self.max_hold_bars)

\* C2: a position carried into a bar is flattened at the end of that bar if
\* and only if an exit trigger holds on the bar (|z| < z_exit, or stop_z set
\* and |z| >= stop_z, or max_hold_bars set and bars since entry >=
\* max_hold_bars); otherwise it is carried on unchanged, so a run that ends
\* with an open position saw no trigger on its last bar
C2_ExitIffTrigger ==
    (BarRan /\ bar.pre.position # 0) =>
        /\ (run.position = 0) <=> StatedTrigger
        /\ ~StatedTrigger =>
              /\ run.position = bar.pre.position
              /\ run.sh_a = bar.pre.sh_a /\ run.sh_b = bar.pre.sh_b
              /\ run.entry_idx = bar.pre.entry_idx

C2_Witness ==
    /\ BarRan /\ bar.pre.position # 0 /\ run.position = 0
    /\ Abs(bar.z) >= self.z_exit
    /\ self.stop_z # None /\ Abs(bar.z) >= self.stop_z
    /\ self.max_hold_bars = None

\* C3: on a bar entered FLAT, z > z_entry opens SHORT_SPREAD (shares_a < 0,
\* shares_b >= 0), z < -z_entry opens LONG_SPREAD (shares_a > 0, shares_b <=
\* 0), and otherwise the state stays FLAT with zero shares; a bar entered with
\* a position makes no entry.  "Opens" is the state the ENTRY block leaves,
\* which is the one marked to market on the bar.
C3_EntryRules ==
    BarRan =>
        /\ (bar.pre.position = 0 /\ bar.z > self.z_entry) =>
              /\ bar.held.position = 0 - 1
              /\ bar.held.sh_a < 0 /\ bar.held.sh_b >= 0
              /\ Entered
        /\ (bar.pre.position = 0 /\ bar.z < 0 - self.z_entry) =>
              /\ bar.held.position = 1
              /\ bar.held.sh_a > 0 /\ bar.held.sh_b <= 0
              /\ Entered
        /\ (bar.pre.position = 0 /\ bar.z >= 0 - self.z_entry
                                 /\ bar.z <= self.z_entry) =>
              /\ bar.held.position = 0 /\ run.position = 0
              /\ run.sh_a = 0 /\ run.sh_b = 0
              /\ ~Entered
        /\ bar.pre.position # 0 =>
              /\ ~Entered
              /\ bar.held = bar.pre

C3_Witness ==
    /\ BarRan /\ bar.pre.position = 0 /\ bar.z < 0 - self.z_entry
    /\ run.position = 1 /\ run.sh_a > 0 /\ run.sh_b < 0

\* C4: with max_hold_bars = N >= 1, a position opened on signal row e is
\* flattened no later than the end of row e+N: after any bar, an open position
\* has fewer than N rows behind it since its entry row
C4_MaxHoldBound ==
    (BarRan /\ self.max_hold_bars # None /\ self.max_hold_bars >= 1
        /\ run.position # 0) =>
        RowsSince(run.entry_idx, bar.t) < self.max_hold_bars

C4_Witness ==
    /\ BarRan /\ self.max_hold_bars = 2 /\ self.stop_z = None
    /\ bar.pre.position # 0 /\ RowsSince(bar.pre.entry_idx, bar.t) = 2
    /\ Abs(bar.z) >= self.z_exit
    /\ run.position = 0

\* C5: on a bar where an exit is realized, the equity recorded for the bar is
\* the pre-exit capital plus the mark-to-market of the held legs at the bar's
\* prices (no exit cost in it), and the capital carried on is that equity
\* minus exactly one transaction cost; with cost_bps = 0 it is the equity
C5_ExitAccounting ==
    Flattened =>
        /\ Last(run.equity_series) =
              bar.held.capital + bar.held.sh_a * bar.price_a
                               + bar.held.sh_b * bar.price_b
        /\ run.capital = Last(run.equity_series) - StatedCost
        /\ self.cost_bps = 0 => run.capital = Last(run.equity_series)

C5_Witness ==
    /\ Flattened /\ bar.pre.position # 0 /\ self.cost_bps > 0
    /\ Last(run.equity_series) # bar.pre.capital
    /\ run.capital = Last(run.equity_series) - 6

\* C6: of two runs over the same rows and parameters that differ in cost_bps
\* only, the one with the larger cost_bps never ends with the larger final
\* equity (negative and zero cost_bps included)
C6_CostMonotone ==
    (twin.on /\ self.cost_bps <= twin.self.cost_bps
        /\ Len(run.equity_series) > 0) =>
        /\ Len(twin.run.equity_series) = Len(run.equity_series)
        /\ Last(twin.run.equity_series) <= Last(run.equity_series)

C6_Witness ==
    /\ pc = "done" /\ twin.on
    /\ self.cost_bps < 0 /\ twin.self.cost_bps > 0
    /\ Len(run.equity_series) > 0
    /\ Last(twin.run.equity_series) < Last(run.equity_series)

\* no trade so far: FLAT, trade_count 0, every recorded equity initial_capital
Quiet(r) ==
    /\ r.position = 0 /\ r.trade_count = 0
    /\ \A n \in 1..Len(r.equity_series) : r.equity_series[n] = self.initial_capital

\* C7: in a run where no row has z > z_entry or z < -z_entry, the state is
\* FLAT after every bar, trade_count is 0 and every recorded equity equals
\* initial_capital (stated bar by bar: the run starts so, and a bar whose z is
\* inside the band keeps it so)
C7_NoSignalNoTrade ==
    /\ (pc = "loop" /\ ~BarRan) => Quiet(run)
    /\ (BarRan /\ Quiet(bar.pre)
          /\ bar.z <= self.z_entry /\ bar.z >= 0 - self.z_entry) =>
          /\ Quiet(run)
          /\ Len(run.equity_series) = Len(bar.pre.equity_series) + 1

C7_Witness ==
    /\ pc = "done" /\ Len(run.equity_series) >= 3 /\ Quiet(run)
    /\ bar.z = self.z_entry

\* C8: the run starts FLAT and at every bar boundary position is one of
\* -1, 0, +1 with consistent fields: position = 0 iff entry_idx is unset, iff
\* shares_a = 0 (and then shares_b = 0); a flattening resets them together
C8_PositionConsistent ==
    /\ run.position \in {0 - 1, 0, 1}
    /\ (run.position = 0) <=> (run.entry_idx = None)
    /\ (run.position = 0) <=> (run.sh_a = 0)
    /\ (run.position = 0) => (run.sh_b = 0)
    /\ ~BarRan => run.position = 0
    /\ Flattened => (run.sh_a = 0 /\ run.sh_b = 0 /\ run.entry_idx = None)

C8_Witness ==
    /\ Flattened /\ bar.pre.position # 0 /\ bar.pre.entry_idx # None
    /\ bar.pre.sh_a # 0 /\ bar.pre.sh_b # 0

\* the rows of the frame past the warm-up whose z is undefined (zero spread_std)
UndefinedZRows ==
    {k \in 1..Len(frame) :
        frame[k].z_nan /\ ~frame[k].beta_nan /\ ~frame[k].stat_nan}

\* the timestamps that have an EquityPoint
EquityIndex == {df[n].t : n \in 1..Len(run.equity_series)}

\* C9 as stated: a bar whose z is undefined makes no entry or exit decision
\* and still gets an EquityPoint recorded from the previous state
C9_UndefinedZStillRecorded ==
    pc = "done" =>
        \A k \in UndefinedZRows : frame[k].t \in EquityIndex

\* C9 as amended: a bar whose z is undefined is dropped by prepare_data, so
\* the loop never reads an undefined z, makes no decision on that bar and
\* records no EquityPoint for it; the equity series has one point per
\* surviving row
C9_UndefinedZDropped ==
    /\ BarRan => bar.z # NaN
    /\ pc = "done" =>
          /\ Len(run.equity_series) = Len(df)
          /\ \A k \in UndefinedZRows : frame[k].t \notin EquityIndex

C9_Witness ==
    /\ pc = "done" /\ UndefinedZRows # {} /\ Len(run.equity_series) >= 2
    /\ \E k \in UndefinedZRows :
          \E n \in 1..(Len(df) - 1) : df[n].t < frame[k].t /\ frame[k].t < df[n + 1].t

\* no spread window of the frame is degenerate: z is undefined only where the
\* history is too short
NoDegenerateWindow == UndefinedZRows = {} /\ self.spread_window > 1

\* C10 as stated: the first output row is the aligned row at position
\* max(hedge_window, spread_window)
C10_WarmupIsMax ==
    (pc # "init" /\ NoDegenerateWindow /\ Len(df) > 0) =>
        df[1].t = Max(self.hedge_window, self.spread_window)

\* C10 as amended: with no degenerate window, the rows dropped for lack of
\* history are exactly the first hedge_window + spread_window - 1 rows of the
\* series left by the first dropna (the aligned series in log-price mode, the
\* aligned series without its first row in return mode)
C10_WarmupIsSum ==
    (pc # "init" /\ NoDegenerateWindow) =>
        LET warmup == self.hedge_window + self.spread_window - 1
            shift == IF self.use_log_price_spread THEN 0 ELSE 1
        IN  /\ Len(df) = Max(0, Len(frame) - warmup)
            /\ \A n \in 1..Len(df) : df[n].t = warmup + shift + n - 1

C10_Witness ==
    /\ pc # "init" /\ NoDegenerateWindow
    /\ self.hedge_window = 2 /\ self.spread_window = 2
    /\ Len(df) >= 1 /\ df[1].t > Max(self.hedge_window, self.spread_window)

\* the two inputs agree on every bar strictly before aligned position t
AgreeBefore(t) ==
    \A k \in 1..Len(reg.bars_a) : k - 1 < t => reg.bars_a[k] = reg.bars_b[k]

\* C11: beta and alpha of row i are computed from the rows [i - hedge_window,
\* i) only: two inputs that agree on all rows strictly before i yield the same
\* beta and alpha at i, whatever the rows i and later hold
C11_NoLookahead ==
    (reg.on /\ reg.pc = "fitted") =>
        \A k \in 1..Len(reg.cols_a) :
            AgreeBefore(reg.cols_a[k].t) =>
                /\ reg.cols_b[k].t = reg.cols_a[k].t
                /\ reg.cols_b[k].beta = reg.cols_a[k].beta
                /\ reg.cols_b[k].alpha = reg.cols_a[k].alpha

C11_Witness ==
    /\ reg.on /\ reg.pc = "fitted"
    /\ reg.split = FitRows - 2
    /\ reg.bars_a[reg.split + 1] # reg.bars_b[reg.split + 1]
    /\ \E k \in 1..(Len(reg.cols_a) - 1) :
          /\ reg.cols_a[k].t = reg.split
          /\ reg.cols_a[k].beta[1] # NaN /\ reg.cols_a[k].beta[1] # 0
          /\ reg.cols_a[k].beta = reg.cols_b[k].beta
          /\ reg.cols_a[k + 1].beta # reg.cols_b[k + 1].beta

\* C12: immediately after an entry, shares_a * price_a = d * notional_per_leg
\* (d = +1 long spread, -1 short spread) and shares_b * price_b =
\* -d * notional_per_leg * scale, with scale = |beta| when beta_neutral and 1
\* otherwise, at the entry bar's prices and beta
C12_EntrySizing ==
    Entered =>
        LET d == bar.held.position
        IN  /\ d \in {1, 0 - 1}
            /\ bar.held.sh_a * bar.price_a = d * self.notional_per_leg
            /\ Abs(bar.held.sh_a * bar.price_a) = self.notional_per_leg
            /\ bar.scale # None /\ bar.scale >= 0
            /\ ~self.beta_neutral => bar.scale = 1
            /\ self.beta_neutral => \E b \in BetaValues : bar.scale = Abs(b)
            /\ bar.held.sh_b * bar.price_b = 0 - d * self.notional_per_leg * bar.scale

C12_Witness ==
    /\ Entered /\ self.beta_neutral /\ bar.scale = 2
    /\ bar.held.position = 0 - 1 /\ bar.price_a = 2 /\ bar.price_b = 2
    /\ bar.held.sh_a = 0 - 6 /\ bar.held.sh_b = 12

\* the rows of df are in strictly increasing timestamp order
IndexSorted == \A n \in 1..(Len(df) - 1) : df[n].t < df[n + 1].t

\* a step leaves the equity series alone or appends exactly one value to it
AppendsOne ==
    \/ run'.equity_series = run.equity_series
    \/ /\ Len(run'.equity_series) = Len(run.equity_series) + 1
       /\ SubSeq(run'.equity_series, 1, Len(run.equity_series)) = run.equity_series
       /\ bar'.t = df[Len(run'.equity_series)].t

\* C13: run visits each signal row once, in timestamp order, appends exactly
\* one equity value per row and terminates: the series never outgrows the
\* rows, recorded values are never modified, run eventually returns, and
\* when it does the series has the length (and index) of the prepared rows
C13_OnePointPerRow ==
    /\ [](/\ Len(run.equity_series) <= Len(df)
          /\ IndexSorted
          /\ BarRan => bar.t = df[Len(run.equity_series)].t
          /\ pc = "done" => Len(run.equity_series) = Len(df))
    /\ [][AppendsOne]_vars
    /\ <>(pc = "done")

C13_Witness ==
    /\ pc = "done" /\ Len(run.equity_series) = 3 /\ Len(df) = 3
    /\ run.trade_count >= 1 /\ tally.exits >= 1

AllPositive(e) == \A k \in 1..Len(e) : e[k] > 0

NonDecreasing(e) == \A k \in 1..(Len(e) - 1) : e[k] <= e[k + 1]

\* the quotient is a number in [-1, 0]
InUnit(p) == p[2] > 0 /\ 0 - p[2] <= p[1] /\ p[1] <= 0

\* C14 as stated: for every equity series whose values are all > 0 the max
\* drawdown is in [-1, 0], it is exactly 0 when the series is non-decreasing,
\* and the series given is not modified
C14_DrawdownBound ==
    (perf.on /\ perf.pc = "done" /\ AllPositive(perf.given.equity)) =>
        /\ InUnit(perf.out.Max_Drawdown)
        /\ NonDecreasing(perf.given.equity) => perf.out.Max_Drawdown[1] = 0
        /\ perf.results = perf.given

\* C14 amended: the bound and the exact 0 hold for every non-empty equity
\* series whose values are all > 0; for an empty series the max drawdown is
\* NaN; the series given is never modified
C14_DrawdownBoundNonEmpty ==
    (perf.on /\ perf.pc = "done") =>
        /\ perf.results = perf.given
        /\ Len(perf.given.equity) = 0 => FracIsNaN(perf.out.Max_Drawdown)
        /\ (Len(perf.given.equity) > 0 /\ AllPositive(perf.given.equity)) =>
              /\ InUnit(perf.out.Max_Drawdown)
              /\ NonDecreasing(perf.given.equity) => perf.out.Max_Drawdown[1] = 0

C14_Witness ==
    /\ perf.on /\ perf.pc = "done"
    /\ perf.given.equity = <<2, 4, 1>>
    /\ perf.out.Max_Drawdown = <<0 - 3, 4>>

\* C15: opening a position creates no gain or loss of its own: on an entry
\* bar the recorded equity is the capital held before the bar minus exactly
\* one entry transaction cost, for beta_neutral true and false
C15_EntryEquityNeutral ==
    (Entered /\ bar.pre.position = 0) =>
        run.equity_series[Len(bar.pre.equity_series) + 1] = bar.pre.capital - StatedCost

\* the bar neither entered nor realized an exit
QuietBar == BarRan /\ ~Entered /\ ~Flattened

\* C16: capital is charged 2 * notional_per_leg * cost_bps / 10000 (0 when
\* cost_bps <= 0) once per entry and once per exit and at no other time; a
\* bar that neither enters nor realizes an exit leaves capital, position,
\* both share counts, entry_idx and trade_count unchanged
C16_CostFrame ==
    /\ Entered => bar.held.capital = bar.pre.capital - StatedCost
    /\ (BarRan /\ ~Entered) => bar.held.capital = bar.pre.capital
    /\ Flattened => run.capital = Last(run.equity_series) - StatedCost
    /\ (BarRan /\ ~Flattened) => run.capital = bar.held.capital
    /\ QuietBar =>
          /\ run.capital = bar.pre.capital
          /\ run.position = bar.pre.position
          /\ run.sh_a = bar.pre.sh_a /\ run.sh_b = bar.pre.sh_b
          /\ run.entry_idx = bar.pre.entry_idx
          /\ run.trade_count = bar.pre.trade_count

C16_Witness ==
    /\ QuietBar /\ bar.pre.position # 0 /\ self.cost_bps < 0
    /\ tally.exits >= 1
    /\ Last(run.equity_series) # run.capital

\* C17: after any prefix of bars trade_count is the number of entries made,
\* and entries minus exits is 0 when FLAT and 1 when a position is open, so
\* entries and exits alternate, starting with an entry
C17_TradeCount ==
    /\ run.trade_count = tally.entries
    /\ tally.entries - tally.exits = (IF run.position = 0 THEN 0 ELSE 1)
    /\ tally.exits <= tally.entries

C17_Witness ==
    /\ tally.entries = 2 /\ tally.exits = 1 /\ run.position # 0

\* C18: after any sequence of decide_portfolio_target calls the live state
\* has no invalid field combination: in_trade iff side is set, iff
\* entry_time is set, and a set side is SHORT_A_LONG_B or LONG_A_SHORT_B
C18_LiveStateValid ==
    live.on =>
        /\ live.state.in_trade <=> live.state.side # NoSide
        /\ live.state.in_trade <=> live.state.entry_time # None
        /\ live.state.side \in {NoSide, "SHORT_A_LONG_B", "LONG_A_SHORT_B"}
        /\ live.state.in_trade \in BOOLEAN

C18_Witness ==
    /\ live.on /\ live.called
    /\ live.pre.in_trade /\ live.pre.side = "LONG_A_SHORT_B"
    /\ ~live.state.in_trade /\ live.state.side = NoSide
    /\ live.state.entry_time = None
    /\ live.features # <<>>

\* the last call was made in a trade, past the maximum holding time
PastMaxHold ==
    /\ live.on /\ live.called /\ live.pre.in_trade
    /\ live.now_ts - live.pre.entry_time > live.p.max_hold_min

\* C19: a call made in a trade more than max_hold_min minutes after
\* entry_time returns the flattening target {A: 0, B: 0} and resets
\* in_trade, side and entry_time, for every features input
C19_MaxHoldFlattens ==
    PastMaxHold =>
        /\ live.target = {<<"A", 0>>, <<"B", 0>>}
        /\ live.state = init_state

\* the symbols of the call
Symbols == {client.symbols[k] : k \in 1..Len(client.symbols)}

\* C20: get_bars_multi makes at most max_retries + 1 attempts per symbol and
\* none after the symbol's first successful fetch, and always terminates
\* with an entry for every requested symbol that is a frame: the fetched
\* frame, or an empty frame when every attempt raised
C20_FetchEverySymbol ==
    /\ [](client.on =>
            /\ \A k \in 1..Len(client.symbols) :
                  /\ client.tries[k] <= client.max_retries + 1
                  /\ ~client.retried[k]
            /\ client.pc = "return" =>
                  /\ DOMAIN client.data_dict = Symbols
                  /\ \A x \in Symbols : client.data_dict[x].kind = "frame")
    /\ <>(client.on /\ client.pc = "return")

\* C21: trade_to_target places no order when the symbol's current position
\* equals target_position, and otherwise exactly one market order, BUY when
\* target > current and SELL when target < current, of quantity
\* |target - current|; a full fill of that order on the position the call
\* saw leaves the position equal to the target, and a repeated call after
\* that fill places nothing
C21_TradeToTarget ==
    executor.on =>
        /\ executor.event.kind = "call" =>
              LET e == executor.event
              IN  /\ e.current = e.target => e.sent = <<>>
                  /\ e.current # e.target =>
                        /\ Len(e.sent) = 1
                        /\ e.sent[1].symbol = e.symbol
                        /\ e.sent[1].action = (IF e.target > e.current THEN "BUY" ELSE "SELL")
                        /\ e.sent[1].quantity = Abs(e.target - e.current)
                        /\ e.sent[1].quantity > 0
                  /\ e.repeat => e.sent = <<>>
        /\ (executor.event.kind = "fill"
              /\ executor.event.before = executor.event.order.seen) =>
              /\ executor.event.after = executor.event.order.target
              /\ get_position(executor.positions, executor.event.order.symbol)
                    = executor.event.order.target

C21_Witness ==
    /\ executor.on /\ executor.event.kind = "call"
    /\ executor.event.repeat /\ executor.event.target = 0 - 50
    /\ executor.event.sent = <<>>
    /\ executor.orders = <<>>

====
